---- MODULE Spec2Model ----
(***************************************************************************)
(* Job Tracker (form-to-sheet): the add/view page (src/src/app/page.tsx,   *)
(* lines 1-579), the write route POST /api/submit (page.tsx, lines         *)
(* 580-656) and the read route GET /api/sheet-data (src/unnamed/part_000), *)
(* in front of one spreadsheet.                                            *)
(***************************************************************************)
EXTENDS Integers, Sequences, FiniteSets

\* ------------------------------------------------------------------ bounds
MaxPosts == 2
MaxGets == 2
MaxSubmits == 2
MaxFetches == 2

\* ------------------------------------------------------- JavaScript values
\* property access on a missing key, or an index past the end of an array
Undefined == "<undefined>"

\* the operand test of  x || ''  for the values of this model (strings, undefined)
Falsy(v) == v = Undefined \/ v = ""

OrEmpty(v) == IF Falsy(v) THEN "" ELSE v

\* obj.key
Get(obj, key) == IF key \in DOMAIN obj THEN obj[key] ELSE Undefined

\* arr[i] of the source, 0-based
At(arr, i) == IF i + 1 \in DOMAIN arr THEN arr[i + 1] ELSE Undefined

Digit == <<"0", "1", "2", "3", "4", "5", "6", "7", "8", "9">>

RECURSIVE ToString(_)
\* Number.prototype.toString() of a non-negative integer
ToString(n) == IF n < 10 THEN Digit[n + 1] ELSE ToString(n \div 10) \o Digit[(n % 10) + 1]

\* ----------------------------------------------------------------- schema
Required ==
  {"jobNumber", "customerName", "jobName", "jobLocation", "salesPerson", "jobSize",
   "quantity", "jobCategory", "jobBookedDate", "jobStatus", "deliveryDate",
   "deliveryDetails"}

Fields == Required \cup {"remark"}

\* what the user types into a fully filled form
Filled ==
  [jobNumber |-> "J001", customerName |-> "Acme", jobName |-> "Brochure",
   jobLocation |-> "Pune", salesPerson |-> "Ravi", jobSize |-> "A4",
   quantity |-> "500", jobCategory |-> "Print", jobBookedDate |-> "2024-01-15",
   jobStatus |-> "Pending", deliveryDate |-> "2024-02-01",
   deliveryDetails |-> "Courier", remark |-> "Urgent"]

EmptyForm == [f \in Fields |-> ""]

Without(form, f) == [form EXCEPT ![f] = ""]

\* a JSON body with the key f left out
Omit(body, f) == [k \in (DOMAIN body) \ {f} |-> body[k]]

\* ---------------------------------------------------------------- variables
VARIABLES
  configured,   \* process.env.GOOGLE_SHEET_ID is set
  sheet,        \* the spreadsheet's rows, in order
  origin,       \* ghost: for each row of sheet, the POST invocation that appended it (0: initial)
  posts,        \* the invocations of the write handler, in order of arrival
  gets,         \* the invocations of the read handler, in order of arrival
  activeTab,      \* useState<TabType>('add')
  isSubmitting,   \* useState(false)
  submitStatus,   \* useState(null): the banner
  sheetData,      \* useState<SheetRow[]>([])
  isFetchingData, \* useState(false)
  snapshot,       \* ghost: the call of fetchSheetData whose response sheetData shows (0: none)
  formValues,     \* useForm: the values of the registered inputs
  errors,         \* useForm: formState.errors, the fields that carry a message
  isSubmitted,    \* useForm: formState.isSubmitted
  submits,        \* the calls of onSubmit awaiting fetch('/api/submit'), each with the activeTab of its closure
  fetches,        \* the calls of fetchSheetData awaiting fetch('/api/sheet-data')
  timers          \* the pending setTimeout callbacks

server == <<configured, sheet, origin, posts, gets>>

page ==
  <<activeTab, isSubmitting, submitStatus, sheetData, isFetchingData, snapshot, formValues,
    errors, isSubmitted, submits, fetches, timers>>

vars == <<server, page>>

\* ------------------------------------------------------- the write handler
\* new Date().toISOString() at the instants the model's clock can show
ClockTicks == {0, 1}

FrozenClock == {0}

ToISOString(t) == IF t = 0 THEN "2024-01-15T10:00:00.000Z" ELSE "2024-01-15T10:00:01.000Z"

\* mutant of RowData: body.remark without the  || ''
RowDataRemarkVerbatim(body, submissionDate) ==
  << Get(body, "jobNumber"), Get(body, "customerName"), Get(body, "jobName"),
     Get(body, "jobLocation"), Get(body, "salesPerson"), Get(body, "jobSize"),
     Get(body, "quantity"), Get(body, "jobCategory"), Get(body, "jobBookedDate"),
     Get(body, "jobStatus"), Get(body, "deliveryDate"), Get(body, "deliveryDetails"),
     Get(body, "remark"), submissionDate >>

RowData(body, submissionDate) ==
  << Get(body, "jobNumber"), Get(body, "customerName"), Get(body, "jobName"),
     Get(body, "jobLocation"), Get(body, "salesPerson"), Get(body, "jobSize"),
     Get(body, "quantity"), Get(body, "jobCategory"), Get(body, "jobBookedDate"),
     Get(body, "jobStatus"), Get(body, "deliveryDate"), Get(body, "deliveryDetails"),
     OrEmpty(Get(body, "remark")), submissionDate >>

\* NextResponse.json(body) answers 200, NextResponse.json(body, {status}) that status
PostOk(result) ==
  [status |-> 200,
   body |-> [success |-> TRUE, message |-> "Job entry submitted successfully!", data |-> result]]

\* mutant of PostFailed: the failure body without { status: 500 }
PostFailedNoStatus(detail) ==
  [status |-> 200,
   body |-> [success |-> FALSE, message |-> "Failed to submit job entry", error |-> detail]]

PostFailed(detail) ==
  [status |-> 500,
   body |-> [success |-> FALSE, message |-> "Failed to submit job entry", error |-> detail]]

NoResponse == [status |-> 0, body |-> [pending |-> TRUE]]

\* an invocation that has returned and whose response was taken, or whose request
\* never arrived: a handler keeps nothing between invocations
Closed == [pc |-> "closed"]

\* what the backend keeps of the rows of an append: a cell that is undefined is
\* sent as null and leaves its cell empty
Stored(values) ==
  [r \in DOMAIN values |->
     [i \in DOMAIN values[r] |-> IF values[r][i] = Undefined THEN "" ELSE values[r][i]]]

\* requestBody: { values: [rowData] }
RequestValues(rowData) == <<rowData>>

\* the backend's answer to values.append
AppendResult(n) == [updatedRows |-> 1, updatedRange |-> "Sheet1!A" \o ToString(n) \o ":N" \o ToString(n)]

AppendCauses == {"auth", "backend", "network"}

ErrorDetail(cause) ==
  CASE cause = "auth" -> "invalid_grant"
    [] cause = "network" -> "request failed"
    [] cause = "backend" -> "Requested entity was not found."
    [] cause = "missing_id" -> "Google Sheet ID is not configured"
    [] OTHER -> "Unexpected token in JSON"

\* a request reaches the write handler: json is "object" or "malformed"
NewPost(json, body) ==
  [json |-> json, body |-> body, pc |-> "recv", rowData |-> <<>>,
   values |-> <<>>, appends |-> 0, outcome |-> "none", resp |-> NoResponse]

\* lines 589-620: parse the body, read the clock, build the row; a body that does
\* not parse goes to the catch block
PostBuild(i, t) ==
  /\ i \in DOMAIN posts
  /\ posts[i].pc = "recv"
  /\ IF posts[i].json = "malformed"
       THEN posts' = [posts EXCEPT ![i].pc = "done", ![i].resp = PostFailed(ErrorDetail("json"))]
       ELSE posts' = [posts EXCEPT ![i].pc = "built",
                                   ![i].rowData = RowData(posts[i].body, ToISOString(t))]
  /\ UNCHANGED <<configured, sheet, origin, gets, page>>

\* mutant of PostAppendOk: the row is written at the last row read, not appended
PostAppendOkOverwrite(i) ==
  /\ i \in DOMAIN posts
  /\ posts[i].pc = "built"
  /\ configured
  /\ sheet # <<>>
  /\ sheet' = [sheet EXCEPT ![Len(sheet)] = Stored(RequestValues(posts[i].rowData))[1]]
  /\ origin' = [origin EXCEPT ![Len(sheet)] = i]
  /\ posts' = [posts EXCEPT ![i].pc = "done", ![i].appends = @ + 1,
                            ![i].values = RequestValues(posts[i].rowData),
                            ![i].outcome = "resolved",
                            ![i].resp = PostOk(AppendResult(Len(sheet)))]
  /\ UNCHANGED <<configured, gets, page>>

\* lines 623-636: the append is applied and the call resolves
PostAppendOk(i) ==
  /\ i \in DOMAIN posts
  /\ posts[i].pc = "built"
  /\ configured
  /\ sheet' = sheet \o Stored(RequestValues(posts[i].rowData))
  /\ origin' = origin \o [r \in DOMAIN RequestValues(posts[i].rowData) |-> i]
  /\ posts' = [posts EXCEPT ![i].pc = "done", ![i].appends = @ + 1,
                            ![i].values = RequestValues(posts[i].rowData),
                            ![i].outcome = "resolved",
                            ![i].resp = PostOk(AppendResult(Len(sheet) + 1))]
  /\ UNCHANGED <<configured, gets, page>>

\* lines 623-630, 637-647: the append call rejects and nothing was applied
PostAppendFail(i, cause) ==
  /\ i \in DOMAIN posts
  /\ posts[i].pc = "built"
  /\ posts' = [posts EXCEPT ![i].pc = "done", ![i].appends = @ + 1,
                            ![i].values = RequestValues(posts[i].rowData),
                            ![i].outcome = "rejected",
                            ![i].resp = PostFailed(ErrorDetail(cause))]
  /\ UNCHANGED <<configured, sheet, origin, gets, page>>

\* lines 623-630, 637-647: the backend applies the append and its answer is lost
PostAppendLost(i) ==
  /\ i \in DOMAIN posts
  /\ posts[i].pc = "built"
  /\ configured
  /\ sheet' = sheet \o Stored(RequestValues(posts[i].rowData))
  /\ origin' = origin \o [r \in DOMAIN RequestValues(posts[i].rowData) |-> i]
  /\ posts' = [posts EXCEPT ![i].pc = "done", ![i].appends = @ + 1,
                            ![i].values = RequestValues(posts[i].rowData),
                            ![i].outcome = "rejected",
                            ![i].resp = PostFailed(ErrorDetail("network"))]
  /\ UNCHANGED <<configured, gets, page>>

\* -------------------------------------------------------- the read handler
ReadOk(values) == [status |-> 200, body |-> [success |-> TRUE, data |-> values]]

\* mutant of ReadFailed: the error's message is returned, as the write handler does
ReadFailedDetail(cause) ==
  [status |-> 500,
   body |-> [success |-> FALSE, message |-> "Failed to fetch sheet data",
             error |-> ErrorDetail(cause)]]

ReadFailed(cause) ==
  [status |-> 500, body |-> [success |-> FALSE, message |-> "Failed to fetch sheet data"]]

NewGet ==
  [pc |-> "recv", reads |-> 0, cause |-> "none", resp |-> NoResponse]

\* part_000 lines 5-20: build the client, then refuse a missing spreadsheet id
GetCheck(i) ==
  /\ i \in DOMAIN gets
  /\ gets[i].pc = "recv"
  /\ IF configured
       THEN gets' = [gets EXCEPT ![i].pc = "reading"]
       ELSE gets' = [gets EXCEPT ![i].pc = "done", ![i].cause = "missing_id",
                                 ![i].resp = ReadFailed("missing_id")]
  /\ UNCHANGED <<configured, sheet, origin, posts, page>>

\* part_000 lines 23-33: response.data.values || []
GetReadOk(i) ==
  /\ i \in DOMAIN gets
  /\ gets[i].pc = "reading"
  /\ gets' = [gets EXCEPT ![i].pc = "done", ![i].reads = @ + 1, ![i].resp = ReadOk(sheet)]
  /\ UNCHANGED <<configured, sheet, origin, posts, page>>

\* part_000 lines 23-26, 35-44
GetReadFail(i, cause) ==
  /\ i \in DOMAIN gets
  /\ gets[i].pc = "reading"
  /\ gets' = [gets EXCEPT ![i].pc = "done", ![i].reads = @ + 1, ![i].cause = cause,
                          ![i].resp = ReadFailed(cause)]
  /\ UNCHANGED <<configured, sheet, origin, posts, page>>

ReadCauses == {"auth", "backend"}

\* ------------------------------------------------------------ the backend
Header ==
  <<"Job#", "Customer", "Job", "Location", "Sales", "Size", "Qty", "Category", "Booked",
    "Status", "Delivery", "Details", "Remark", "Submitted">>

\* a row typed into the sheet by hand: trailing empty cells are not returned
ShortRow == <<"J000", "", "Flyer">>

\* a sheet of a header and eleven short rows
LongSheet == [k \in 1 .. 12 |-> IF k = 1 THEN Header ELSE <<"J" \o ToString(k)>>]

InitialSheets ==
  {<<>>, <<Header>>, <<Header, ShortRow>>, <<Header, <<>>, ShortRow>>, LongSheet}

InitServer ==
  /\ configured \in BOOLEAN
  /\ sheet \in InitialSheets
  /\ origin = [i \in DOMAIN sheet |-> 0]
  /\ posts = <<>>
  /\ gets = <<>>

\* ---------------------------------------------------------------- the page
Null == [null |-> TRUE]

\* mutant of Validate: quantity declared optional, like remark
ValidateQuantityOptional(values) ==
  {f \in Required \ {"quantity"} : Get(values, f) = Undefined \/ Get(values, f) = ""}

\* formSchema: z.string().min(1, ...) on every field but remark
Validate(values) == {f \in Required : Get(values, f) = Undefined \/ Get(values, f) = ""}

\* new Date(s) of an <input type="date"> value, as <<year, month, day>> (UTC)
ParseDate(s) ==
  CASE s = "2024-01-15" -> <<2024, 1, 15>>
    [] s = "2024-02-01" -> <<2024, 2, 1>>
    [] OTHER -> <<1970, 1, 1>>

Pad2(n) == IF n < 10 THEN "0" \o ToString(n) ELSE ToString(n)

\* date.toISOString().split('T')[0]
ISODate(d) == ToString(d[1]) \o "-" \o Pad2(d[2]) \o "-" \o Pad2(d[3])

FormatDate(s) == IF s # "" THEN ISODate(ParseDate(s)) ELSE ""

\* lines 209-213
FormattedData(formData) ==
  [formData EXCEPT !["jobBookedDate"] = FormatDate(@), !["deliveryDate"] = FormatDate(@)]

\* response.ok
Ok(resp) == resp.status >= 200 /\ resp.status <= 299

\* data.slice(1)
Slice1(data) == IF Len(data) <= 1 THEN <<>> ELSE SubSeq(data, 2, Len(data))

\* lines 73-88: the callback of map
SheetRow(row, index) ==
  [sno |-> ToString(index + 1),
   jobNumber |-> OrEmpty(At(row, 0)), customerName |-> OrEmpty(At(row, 1)),
   jobName |-> OrEmpty(At(row, 2)), jobLocation |-> OrEmpty(At(row, 3)),
   salesPerson |-> OrEmpty(At(row, 4)), jobSize |-> OrEmpty(At(row, 5)),
   quantity |-> OrEmpty(At(row, 6)), jobCategory |-> OrEmpty(At(row, 7)),
   jobBookedDate |-> OrEmpty(At(row, 8)), jobStatus |-> OrEmpty(At(row, 9)),
   deliveryDate |-> OrEmpty(At(row, 10)), deliveryDetails |-> OrEmpty(At(row, 11)),
   remark |-> OrEmpty(At(row, 12))]

\* mutant of Reshape: map without slice(1)
ReshapeKeepHeader(data) == [k \in 1 .. Len(data) |-> SheetRow(data[k], k - 1)]

\* data.data.slice(1).map(...)
Reshape(data) == [k \in 1 .. Len(Slice1(data)) |-> SheetRow(Slice1(data)[k], k - 1)]

InitPage ==
  /\ activeTab = "add"
  /\ isSubmitting = FALSE
  /\ submitStatus = Null
  /\ sheetData = <<>>
  /\ isFetchingData = FALSE
  /\ snapshot = 0
  /\ formValues = EmptyForm
  /\ errors = {}
  /\ isSubmitted = FALSE
  /\ submits = {}
  /\ fetches = {}
  /\ timers = 0

Init == InitServer /\ InitPage

\* lines 65-68: fetchSheetData up to its first await
FetchStart ==
  /\ isFetchingData' = TRUE
  /\ gets' = Append(gets, NewGet)
  /\ fetches' = fetches \cup {Len(gets) + 1}

\* mutant of ClickAddTab: the effect fetches on every change of activeTab
ClickAddTabRefetch ==
  /\ activeTab = "view"
  /\ Len(gets) < MaxFetches
  /\ activeTab' = "add"
  /\ FetchStart
  /\ UNCHANGED <<configured, sheet, origin, posts, isSubmitting, submitStatus, sheetData, snapshot,
                 formValues, errors, isSubmitted, submits, timers>>

\* line 291, line 564
ClickAddTab ==
  /\ activeTab = "view"
  /\ activeTab' = "add"
  /\ UNCHANGED <<server, isSubmitting, submitStatus, sheetData, snapshot, isFetchingData, formValues,
                 errors, isSubmitted, submits, fetches, timers>>

\* line 303, and the effect of lines 103-107 that the change of activeTab runs
ClickViewTab ==
  /\ activeTab = "add"
  /\ Len(gets) < MaxFetches
  /\ activeTab' = "view"
  /\ FetchStart
  /\ UNCHANGED <<configured, sheet, origin, posts, isSubmitting, submitStatus, sheetData, snapshot,
                 formValues, errors, isSubmitted, submits, timers>>

\* lines 445-467: the refresh control is rendered in the view tab when no fetch is
\* flagged and the table has rows
RefreshRendered == activeTab = "view" /\ ~isFetchingData /\ Len(sheetData) > 0

ClickRefresh ==
  /\ RefreshRendered
  /\ Len(gets) < MaxFetches
  /\ FetchStart
  /\ UNCHANGED <<configured, sheet, origin, posts, activeTab, isSubmitting, submitStatus,
                 sheetData, snapshot, formValues, errors, isSubmitted, submits, timers>>

\* the form the user types before a submission
FormInputs == {Filled}

\* every form with one or two fields left empty
PartialForms ==
  {Filled} \cup {Without(Without(Filled, f), g) : f \in Fields, g \in {"jobNumber", "remark"}}

\* lines 363-398: the inputs are rendered in the add tab and disabled while
\* submitting; after a submit attempt a changed field is validated again
FillForm(values) ==
  /\ activeTab = "add"
  /\ ~isSubmitting
  /\ values # formValues
  /\ formValues' = values
  /\ errors' = IF isSubmitted
                 THEN {f \in Fields : IF values[f] # formValues[f] THEN f \in Validate(values)
                                                                  ELSE f \in errors}
                 ELSE errors
  /\ UNCHANGED <<server, activeTab, isSubmitting, submitStatus, sheetData, snapshot, isFetchingData,
                 isSubmitted, submits, fetches, timers>>

\* reset() of useForm
ResetForm ==
  /\ formValues' = EmptyForm
  /\ errors' = {}
  /\ isSubmitted' = FALSE

\* line 411
ClickReset ==
  /\ activeTab = "add"
  /\ formValues # EmptyForm \/ errors # {} \/ isSubmitted
  /\ ResetForm
  /\ UNCHANGED <<server, activeTab, isSubmitting, submitStatus, sheetData, snapshot, isFetchingData,
                 submits, fetches, timers>>

\* mutant of SubmitEnabled: the submit button without disabled={isSubmitting}
SubmitAlwaysEnabled == activeTab = "add"

\* lines 332-333, 419-421: the form is rendered in the add tab, its submit button
\* disabled while isSubmitting
SubmitEnabled == activeTab = "add" /\ ~isSubmitting

\* handleSubmit(onSubmit): the resolver's errors block the submit, else lines 203-221
HandleSubmit ==
  /\ SubmitEnabled
  /\ isSubmitted' = TRUE
  /\ errors' = Validate(formValues)
  /\ IF Validate(formValues) # {}
       THEN UNCHANGED <<posts, submits, isSubmitting, submitStatus>>
       ELSE /\ Len(posts) < MaxSubmits
            /\ isSubmitting' = TRUE
            /\ submitStatus' = Null
            /\ posts' = Append(posts, NewPost("object", FormattedData(formValues)))
            /\ submits' = submits \cup {[id |-> Len(posts) + 1, activeTab |-> activeTab]}
  /\ UNCHANGED <<configured, sheet, origin, gets, activeTab, sheetData, snapshot, isFetchingData,
                 formValues, fetches, timers>>

\* lines 223-245, 258-260: the response is ok
SubmitSucceeded(call) ==
  /\ call \in submits
  /\ posts[call.id].pc = "done"
  /\ Ok(posts[call.id].resp)
  /\ submits' = submits \ {call}
  /\ submitStatus' =
       [success |-> TRUE,
        message |-> IF Falsy(Get(posts[call.id].resp.body, "message"))
                      THEN "Job entry submitted successfully!"
                      ELSE posts[call.id].resp.body.message]
  /\ ResetForm
  /\ IF call.activeTab = "view" /\ Len(gets) < MaxFetches
       THEN FetchStart
       ELSE UNCHANGED <<isFetchingData, gets, fetches>>
  /\ timers' = timers + 1
  /\ isSubmitting' = FALSE
  /\ posts' = [posts EXCEPT ![call.id] = Closed]
  /\ UNCHANGED <<configured, sheet, origin, activeTab, sheetData, snapshot>>

\* lines 247-260: the catch block and finally
SubmitCatch(message) ==
  /\ submitStatus' = [success |-> FALSE, message |-> message]
  /\ timers' = timers + 1
  /\ isSubmitting' = FALSE

\* mutant of SubmitRejected: response.ok is not tested
SubmitRejectedUntested(call) ==
  /\ call \in submits
  /\ posts[call.id].pc = "done"
  /\ ~Ok(posts[call.id].resp)
  /\ submits' = submits \ {call}
  /\ submitStatus' = [success |-> TRUE, message |-> posts[call.id].resp.body.message]
  /\ ResetForm
  /\ timers' = timers + 1
  /\ isSubmitting' = FALSE
  /\ posts' = [posts EXCEPT ![call.id] = Closed]
  /\ UNCHANGED <<configured, sheet, origin, gets, activeTab, sheetData, snapshot, isFetchingData,
                 fetches>>

\* lines 223-227, 247-260: the response is not ok
SubmitRejected(call) ==
  /\ call \in submits
  /\ posts[call.id].pc = "done"
  /\ ~Ok(posts[call.id].resp)
  /\ submits' = submits \ {call}
  /\ SubmitCatch(IF Falsy(Get(posts[call.id].resp.body, "message"))
                   THEN "Failed to submit job entry"
                   ELSE posts[call.id].resp.body.message)
  /\ posts' = [posts EXCEPT ![call.id] = Closed]
  /\ UNCHANGED <<configured, sheet, origin, gets, activeTab, sheetData, snapshot, isFetchingData,
                 formValues, errors, isSubmitted, fetches>>

\* lines 215-223, 247-260: fetch throws, the request did not reach the handler
SubmitThrew(call) ==
  /\ call \in submits
  /\ posts[call.id].pc = "recv"
  /\ submits' = submits \ {call}
  /\ SubmitCatch("Failed to fetch")
  /\ posts' = [posts EXCEPT ![call.id] = Closed]
  /\ UNCHANGED <<configured, sheet, origin, gets, activeTab, sheetData, snapshot, isFetchingData,
                 formValues, errors, isSubmitted, fetches>>

\* lines 69-90, 97-99
FetchResponded(i) ==
  /\ i \in fetches
  /\ gets[i].pc = "done"
  /\ fetches' = fetches \ {i}
  /\ sheetData' = IF Ok(gets[i].resp) /\ "data" \in DOMAIN gets[i].resp.body
                    THEN Reshape(gets[i].resp.body.data)
                    ELSE sheetData
  /\ snapshot' = IF Ok(gets[i].resp) /\ "data" \in DOMAIN gets[i].resp.body THEN i ELSE snapshot
  /\ isFetchingData' = FALSE
  /\ gets' = [gets EXCEPT ![i] = Closed]
  /\ UNCHANGED <<configured, sheet, origin, posts, activeTab, isSubmitting, submitStatus,
                 formValues, errors, isSubmitted, submits, timers>>

\* lines 68-69, 91-99: fetch throws, the request did not reach the handler
FetchThrew(i) ==
  /\ i \in fetches
  /\ gets[i].pc = "recv"
  /\ fetches' = fetches \ {i}
  /\ submitStatus' = [success |-> FALSE, message |-> "Failed to load data. Please try again."]
  /\ isFetchingData' = FALSE
  /\ gets' = [gets EXCEPT ![i] = Closed]
  /\ UNCHANGED <<configured, sheet, origin, posts, activeTab, isSubmitting, sheetData, snapshot,
                 formValues, errors, isSubmitted, submits, timers>>

\* lines 243-245, 255-257: a timer's callback runs
TimerFired ==
  /\ timers > 0
  /\ timers' = timers - 1
  /\ submitStatus' = Null
  /\ UNCHANGED <<server, activeTab, isSubmitting, sheetData, snapshot, isFetchingData, formValues,
                 errors, isSubmitted, submits, fetches>>

\* ------------------------------------- requests of any number of sessions
PostBodies ==
  {Filled, Omit(Filled, "remark"), Omit(Without(Filled, "quantity"), "jobName")}

SessionPost(json, body) ==
  /\ Len(posts) < MaxPosts
  /\ posts' = Append(posts, NewPost(json, body))
  /\ UNCHANGED <<configured, sheet, origin, gets, page>>

SessionGet ==
  /\ Len(gets) < MaxGets
  /\ gets' = Append(gets, NewGet)
  /\ UNCHANGED <<configured, sheet, origin, posts, page>>

NextWrite ==
  \/ \E b \in PostBodies : SessionPost("object", b)
  \/ SessionPost("malformed", EmptyForm)
  \/ \E i \in DOMAIN posts, t \in ClockTicks : PostBuild(i, t)
  \/ \E i \in DOMAIN posts : PostAppendOk(i)
  \/ \E i \in DOMAIN posts, c \in AppendCauses : PostAppendFail(i, c)
  \/ \E i \in DOMAIN posts : PostAppendLost(i)

\* the write handler under requests of any sessions
SpecWrite == Init /\ [][NextWrite]_vars

NextRead ==
  \/ SessionGet
  \/ \E i \in DOMAIN gets : GetCheck(i)
  \/ \E i \in DOMAIN gets : GetReadOk(i)
  \/ \E i \in DOMAIN gets, c \in ReadCauses : GetReadFail(i, c)

\* the read handler under requests of any sessions
SpecRead == Init /\ [][NextRead]_vars

Next ==
  \/ ClickAddTab
  \/ ClickViewTab
  \/ ClickRefresh
  \/ \E v \in FormInputs : FillForm(v)
  \/ ClickReset
  \/ HandleSubmit
  \/ \E c \in submits : SubmitSucceeded(c)
  \/ \E c \in submits : SubmitRejected(c)
  \/ \E c \in submits : SubmitThrew(c)
  \/ \E i \in fetches : FetchResponded(i)
  \/ \E i \in fetches : FetchThrew(i)
  \/ TimerFired
  \/ \E i \in DOMAIN posts, t \in FrozenClock : PostBuild(i, t)
  \/ \E i \in DOMAIN posts : PostAppendOk(i)
  \/ \E i \in DOMAIN posts : PostAppendFail(i, "backend")
  \/ \E i \in DOMAIN gets : GetCheck(i)
  \/ \E i \in DOMAIN gets : GetReadOk(i)
  \/ \E i \in DOMAIN gets : GetReadFail(i, "backend")

\* the page in front of a spreadsheet of a header and one row
InitSpec == Init /\ sheet = <<Header, ShortRow>>

\* one session of the page with the two handlers behind it
Spec == InitSpec /\ [][Next]_vars

NextForm ==
  \/ \E v \in PartialForms : FillForm(v)
  \/ ClickReset
  \/ HandleSubmit
  \/ \E c \in submits : SubmitThrew(c)
  \/ TimerFired

\* the add form alone, its requests unanswered
SpecForm == Init /\ [][NextForm]_vars

NextView ==
  \/ ClickAddTab
  \/ ClickViewTab
  \/ ClickRefresh
  \/ \E i \in fetches : FetchResponded(i)
  \/ \E i \in fetches : FetchThrew(i)
  \/ \E i \in DOMAIN gets : GetCheck(i)
  \/ \E i \in DOMAIN gets : GetReadOk(i)
  \/ \E i \in DOMAIN gets, c \in ReadCauses : GetReadFail(i, c)

\* the view tab alone, over every initial sheet
SpecView == Init /\ [][NextView]_vars

\* ================================================================== claims
\* the persisted column order (spec, section 6): columns 1 to 13
ColumnOrder ==
  <<"jobNumber", "customerName", "jobName", "jobLocation", "salesPerson", "jobSize",
    "quantity", "jobCategory", "jobBookedDate", "jobStatus", "deliveryDate",
    "deliveryDetails", "remark">>

RowsOf(i) == {k \in DOMAIN origin : origin[k] = i}

\* C2: every append call of the write handler passes exactly one row of exactly 14
\* elements: elements 1 to 12 are the body's jobNumber ... deliveryDetails, verbatim
\* and in that order, element 13 is body.remark or "" when remark is omitted,
\* element 14 is the non-empty submission timestamp.
C2_RowLayout ==
  \A i \in DOMAIN posts :
    posts[i].appends > 0 =>
      /\ Len(posts[i].values) = 1
      /\ Len(posts[i].values[1]) = 14
      /\ \A k \in 1 .. 12 : posts[i].values[1][k] = Get(posts[i].body, ColumnOrder[k])
      /\ posts[i].values[1][13] =
           (IF "remark" \in DOMAIN posts[i].body THEN posts[i].body["remark"] ELSE "")
      /\ posts[i].values[1][14] # ""
      /\ posts[i].values[1][14] # Undefined
      /\ \E t \in ClockTicks : posts[i].values[1][14] = ToISOString(t)

\* C2 witness: an append was made for a body that omits remark, and one for a body
\* that carries a remark
C2_Witness ==
  \E i, j \in DOMAIN posts :
    /\ posts[i].appends = 1 /\ "remark" \notin DOMAIN posts[i].body
    /\ posts[j].appends = 1 /\ Get(posts[j].body, "remark") = "Urgent"

\* C3 as stated: once every invocation has returned, the backend holds exactly one
\* row for each invocation.
C3_OneRowPerSubmission ==
  (\A i \in DOMAIN posts : posts[i].pc = "done") =>
    (\A i \in DOMAIN posts : Cardinality(RowsOf(i)) = 1)

C3_RowsKept == \A k \in DOMAIN sheet : k \in DOMAIN sheet' /\ sheet'[k] = sheet[k] /\ origin'[k] = origin[k]

C3_RowsOfInvocation ==
  \A i \in DOMAIN posts :
    /\ Cardinality(RowsOf(i)) <= 1
    /\ posts[i].outcome = "resolved" => Cardinality(RowsOf(i)) = 1
    /\ posts[i].appends = 0 => RowsOf(i) = {}
    /\ \A k \in RowsOf(i) : sheet[k] = Stored(<<posts[i].rowData>>)[1]

\* C3 amended: under any interleaving, no invocation changes or removes a row, every
\* invocation adds at most one row, exactly one (its own) when its append call
\* succeeds and none when it fails before making the call, and every row of the
\* backend is an initial row or the row of one invocation.
C3_AppendOnly ==
  /\ [](C3_RowsOfInvocation /\ DOMAIN origin = DOMAIN sheet
        /\ \A k \in DOMAIN origin : origin[k] = 0 \/ origin[k] \in DOMAIN posts)
  /\ [][C3_RowsKept]_vars

\* C3 witness: two invocations ran interleaved (the later arrival appended first),
\* both appended, and a third outcome, a failed one, left no row
C3_Witness ==
  /\ Len(posts) >= 2
  /\ \E i, j \in DOMAIN posts, k, l \in DOMAIN origin :
       i < j /\ origin[k] = j /\ origin[l] = i /\ k < l

\* C4: every invocation makes at most one append attempt and, once returned, has
\* exactly one response: success=true with the backend's append result and status
\* 200 when the append succeeded, success=false with a message and status 500 on any
\* failure.
C4_OneAttemptOneResponse ==
  \A i \in DOMAIN posts :
    /\ posts[i].appends <= 1
    /\ posts[i].pc = "done" <=> posts[i].resp # NoResponse
    /\ posts[i].pc = "done" =>
         IF posts[i].outcome = "resolved"
           THEN /\ posts[i].resp.status = 200
                /\ posts[i].resp.body.success = TRUE
                /\ \E k \in RowsOf(i) : posts[i].resp.body.data = AppendResult(k)
           ELSE /\ posts[i].resp.status = 500
                /\ posts[i].resp.body.success = FALSE
                /\ posts[i].resp.body.message # ""
                /\ "data" \notin DOMAIN posts[i].resp.body

\* C4 witness: one invocation answered 200 after its append, another answered 500
\* after a rejected append, each with a single attempt
C4_Witness ==
  \E i, j \in DOMAIN posts :
    /\ posts[i].resp.status = 200 /\ posts[i].appends = 1
    /\ posts[j].resp.status = 500 /\ posts[j].appends = 1

\* C5: every failure of the read handler answers success=false, status 500 and the
\* one fixed message, whatever the cause and with no error detail; with no
\* spreadsheet id configured no backend read is issued.
C5_GenericReadFailure ==
  \A i \in DOMAIN gets :
    /\ (gets[i].pc = "done" /\ gets[i].cause # "none") =>
         /\ gets[i].resp.status = 500
         /\ DOMAIN gets[i].resp.body = {"success", "message"}
         /\ gets[i].resp.body.success = FALSE
         /\ gets[i].resp.body.message = "Failed to fetch sheet data"
    /\ (gets[i].pc = "done" /\ gets[i].cause = "none") => gets[i].resp.status = 200
    /\ ~configured => gets[i].reads = 0
    /\ (gets[i].pc = "done" /\ ~configured) => gets[i].cause = "missing_id"

\* C5 witness: two reads failed for different causes
C5_Witness ==
  \E i, j \in DOMAIN gets :
    /\ gets[i].pc = "done" /\ gets[i].cause = "auth"
    /\ gets[j].pc = "done" /\ gets[j].cause = "backend"

\* C5 witness: a read was refused for the missing spreadsheet id
C5_WitnessMissingId == \E i \in DOMAIN gets : gets[i].cause = "missing_id"

\* the required fields the form leaves empty
C1_EmptyRequired == {ColumnOrder[k] : k \in {j \in 1 .. 12 : formValues[ColumnOrder[j]] = ""}}

\* a step that is a submit attempt on such a form: the submit control is enabled,
\* the form is not edited or reset, no timer fires and no request ends
C1_BlockedAttempt ==
  /\ activeTab = "add" /\ ~isSubmitting
  /\ C1_EmptyRequired # {}
  /\ formValues' = formValues /\ timers' = timers /\ isSubmitted'

\* C1: a submit attempt on a form with an empty required field is blocked: onSubmit
\* does not run (the banner is not cleared), no request is issued, isSubmitting
\* stays false, and every empty required field carries a validation error.
C1_SubmitBlocked ==
  [][C1_BlockedAttempt =>
       /\ posts' = posts /\ submits' = submits
       /\ ~isSubmitting'
       /\ submitStatus' = submitStatus
       /\ C1_EmptyRequired \subseteq errors'
       /\ "remark" \notin errors']_vars

\* C1 witness: a form with two required fields empty was submitted and blocked
C1_Witness ==
  /\ isSubmitted /\ ~isSubmitting /\ submits = {} /\ posts = <<>>
  /\ formValues = Without(Without(Filled, "deliveryDate"), "jobNumber")
  /\ errors = {"deliveryDate", "jobNumber"}

\* the decimal numerals, for the sequence numbers
C6_Numeral == <<"1", "2", "3", "4", "5", "6", "7", "8", "9", "10", "11", "12", "13", "14", "15">>

C6_Records(data, records) ==
  /\ Len(records) = Len(data) - 1
  /\ \A k \in 1 .. Len(data) - 1 :
       /\ records[k].sno = C6_Numeral[k]
       /\ \A c \in 1 .. 13 :
            records[k][ColumnOrder[c]] = (IF c <= Len(data[k + 1]) THEN data[k + 1][c] ELSE "")

\* the empty-state prompt of lines 556-572
C6_EmptyState == activeTab = "view" /\ ~isFetchingData /\ Len(sheetData) = 0

\* C6: when the page takes a successful read response of n >= 1 rows, the view
\* holds n-1 records in backend order, the k-th with sno the numeral of k and its
\* 13 fields from columns 1..13 of row k+1, a missing cell as ""; the header row is
\* not among them; a header-only response leaves no records, the empty state (when
\* the view tab is shown) and the banner as it was.
C6_Reshaped ==
  [][\A i \in fetches \ fetches' :
       (gets[i].pc = "done" /\ Ok(gets[i].resp) /\ Len(gets[i].resp.body.data) >= 1) =>
         /\ C6_Records(gets[i].resp.body.data, sheetData')
         /\ Len(gets[i].resp.body.data) = 1 =>
              /\ Len(sheetData') = 0
              /\ submitStatus' = submitStatus
              /\ activeTab' = "view" => C6_EmptyState']_vars

\* C6 witness: the eleven rows under the header are shown, numbered to "11", with
\* the cells their rows lack shown as ""
C6_Witness ==
  /\ Len(sheetData) = 11
  /\ sheetData[11].sno = "11" /\ sheetData[11].jobNumber = "J12" /\ sheetData[11].remark = ""

\* C6 witness: a header-only response was taken and the empty state is shown
C6_WitnessHeaderOnly ==
  /\ sheet = <<Header>> /\ C6_EmptyState /\ submitStatus = Null
  /\ \E i \in DOMAIN gets : gets[i] = Closed

\* C7 as stated: when a submission is answered with success the form is reset, a
\* success banner is set and, if the view tab was activated before (a fetch was
\* started before), exactly one fetch starts, and none otherwise.
C7_SuccessRefetches ==
  [][\A call \in submits \ submits' :
       (posts[call.id].pc = "done" /\ Ok(posts[call.id].resp) /\ Len(gets) < MaxFetches) =>
         /\ formValues' = EmptyForm
         /\ submitStatus' # Null /\ submitStatus'.success
         /\ IF Len(gets) > 0
              THEN Len(gets') = Len(gets) + 1 /\ Cardinality(fetches') = Cardinality(fetches) + 1
              ELSE gets' = gets /\ fetches' = fetches]_vars

\* C8: when a submission fails (a response that is not ok, or a request that threw)
\* the form values and errors are as before, no fetch is started, a failure banner
\* is set, with the handler's message when the handler answered, and isSubmitting
\* is false again.
C8_FailureKeepsForm ==
  [][\A call \in submits \ submits' :
       (posts[call.id].pc = "recv" \/ (posts[call.id].pc = "done" /\ posts[call.id].resp.status = 500)) =>
         /\ formValues' = formValues /\ errors' = errors
         /\ gets' = gets /\ fetches' = fetches
         /\ submitStatus' # Null /\ ~submitStatus'.success
         /\ posts[call.id].pc = "done" =>
              submitStatus'.message = posts[call.id].resp.body.message
         /\ submitStatus'.message # ""
         /\ ~isSubmitting']_vars

\* C8 witness: the handler answered 500, the banner shows its message and the form
\* is still filled
C8_Witness ==
  /\ submitStatus = [success |-> FALSE, message |-> "Failed to submit job entry"]
  /\ formValues = Filled /\ ~isSubmitting /\ submits = {}
  /\ \E i \in DOMAIN posts : posts[i] = Closed

\* C9: at most one submission of the page is in flight, and while one is,
\* isSubmitting is true and the submit control is not enabled.
C9_OneSubmission ==
  /\ Cardinality(submits) <= 1
  /\ Cardinality({i \in DOMAIN posts : posts[i] # Closed}) <= 1
  /\ submits # {} => isSubmitting
  /\ isSubmitting => ~(activeTab = "add" /\ ENABLED HandleSubmit)

\* C9 witness: with a submission in flight the form was reset and the view tab
\* opened after an earlier visit
C9_Witness ==
  /\ submits # {} /\ isSubmitting
  /\ activeTab = "view" /\ formValues = EmptyForm /\ Len(gets) = 2

\* C10 as stated: at most one fetch of the read handler is in flight.
C10_OneFetch == Cardinality(fetches) <= 1

\* C11 as stated: every banner on display has a pending auto-clear timer.
C11_BannerHasTimer == submitStatus # Null => timers > 0

\* a request that completes in this step as a failure: it threw before reaching
\* the handler, or the handler answered with a status that is not ok
C12_Failed(invocation) ==
  invocation.pc = "recv" \/ (invocation.pc = "done" /\ ~Ok(invocation.resp))

\* C12 as stated: when a fetch or a submission of the page completes as a failure,
\* the banner after the step is a failure message.
C12_FailureShowsBanner ==
  [][/\ \A i \in fetches \ fetches' :
          C12_Failed(gets[i]) => (submitStatus' # Null /\ ~submitStatus'.success)
     /\ \A call \in submits \ submits' :
          C12_Failed(posts[call.id]) => (submitStatus' # Null /\ ~submitStatus'.success)]_vars

\* C13: a change of tab leaves the form values as they are; the activation of view
\* starts exactly one fetch, and the return to add starts none.
C13_TabSwitchKeepsForm ==
  [][activeTab' # activeTab =>
       /\ formValues' = formValues
       /\ activeTab' = "view" =>
            (gets' = Append(gets, NewGet) /\ fetches' = fetches \cup {Len(gets')})
       /\ activeTab' = "add" => (gets' = gets /\ fetches' = fetches)]_vars

\* C13 witness: back on the add tab with the form filled and unsubmitted, the one
\* fetch that the visit of the view tab started still in flight
C13_Witness ==
  /\ activeTab = "add" /\ formValues = Filled /\ posts = <<>>
  /\ Len(gets) = 1 /\ fetches = {1}

\* C14 as stated: the response of a fetch that started before the one whose
\* snapshot is on display does not replace the displayed records.
C14_LatestWins ==
  [][\A i \in fetches \ fetches' : i < snapshot => sheetData' = sheetData]_vars

\* C15 as stated: isFetchingData is true exactly when a fetch is in flight.
C15_BusyFlagAccurate == isFetchingData <=> fetches # {}

\* the banner that the catch of fetchSheetData sets: no timer is scheduled with it
C16_LoadFailure == [success |-> FALSE, message |-> "Failed to load data. Please try again."]

\* the timers have one delay and fire in the order they were scheduled; a banner
\* set by a submission is on display only while no later banner was set, so its
\* own timer is the last one scheduled: the timer that fires is the banner's own
\* only when it is the single pending one
C16_OwnTimerFires ==
  timers = 1 /\ timers' = 0 /\ submitStatus # C16_LoadFailure

\* C16 as stated: a banner is cleared only by the start of a new submission or by
\* the timer that was scheduled with it.
C16_ClearedByOwnTimer ==
  [][(submitStatus # Null /\ submitStatus' = Null) =>
       ((~isSubmitting /\ isSubmitting') \/ C16_OwnTimerFires)]_vars

====
